---- MODULE Spec2Model ----
(***************************************************************************)
(* Model of the incremental merge engine of ASD_ADAR_Correction:           *)
(* ExtendedTable (extended_variants_table/extended_table.py), the VEP      *)
(* annotation step (resources/DBs/hg38/variants/default/annotations_func)  *)
(* and the validation step (resources/DBs/hg38/validation/default).        *)
(*                                                                         *)
(* A DataFrame is a record [cols, rows]: cols is the column Index (a       *)
(* sequence of names), rows a sequence of functions from the column names  *)
(* to cell values.  Every cell value is a string: "0" and "1" are the      *)
(* indicator values, NaN is the missing value, key values are the strings  *)
(* read from the source files (a leading blank is kept until some step     *)
(* strips it).                                                             *)
(***************************************************************************)
EXTENDS Naturals, Integers, Sequences, FiniteSets, TLC

\* ------------------------------------------------------------------ bounds
\* longest batch a source load returns
MaxBatch == 2
\* most rows the consolidated table may hold (merges beyond it are not taken)
MaxRows == 2
\* most rows VEP reports for one variant (one per transcript)
MaxMult == 1
\* longest list of registered sources of one kind
MaxRegs == 1
\* most sources whose batch is left loaded by a failed merge
MaxLoaded == 1
\* longest chromosome name handed to _lookup_one (in characters)
MaxChromLen == 4
\* most rows of the table handed to add_genome_ref_column
MaxLookups == 3
\* most worker threads of the pool
MaxWorkers == 2
\* largest chunk_size
MaxChunk == 3

\* ------------------------------------------------------------- the values
NaN == "NaN"

\* ExtendedTable.key_cols
KeyCols == <<"chr", "pos">>

\* the column VEP adds to the rows it annotates
VepCols == <<"Gene">>

\* ExtendedTable.ann_funcs: the names of the annotation steps to run
AnnFuncs == <<"vep_annotations">>

\* The objects handed to register_db / merge_db (a second validator, valV, is
\* used by the validation scenario only).
DbObjs == {"dbX", "dbY", "valY", "obj"}

\* the Db objects among them (merge_db(db: Db))
Dbs == {"dbX", "dbY", "valY"}

\* isinstance(db, VariantsDb) / isinstance(db, ValidationDb)
Kind(d) ==
  CASE d \in {"dbX", "dbY"} -> "VariantsDb"
    [] d \in {"valY", "valV"} -> "ValidationDb"
    [] OTHER -> "object"

\* db.name
Name(d) ==
  CASE d = "dbX" -> "X"
    [] d = "dbY" -> "Y"
    [] d = "valY" -> "Y"
    [] d = "valV" -> "V"
    [] OTHER -> "obj"

\* Python's order of the column names (str.__lt__), as used by Index.union
ColRank(c) ==
  CASE c = "Gene" -> 1
    [] c = "V" -> 2
    [] c = "X" -> 3
    [] c = "Y" -> 4
    [] c = "chr" -> 5
    [] c = "is_ADAR_fixable" -> 6
    [] c = "pos" -> 7
    [] c = "qual" -> 8
    [] OTHER -> 9

\* str.strip() on the values of the model
Strip(s) ==
  CASE s = " 100" -> "100"
    [] s = " 1" -> "1"
    [] OTHER -> s

\* ---------------------------------------------------------- sequence help
Range(s) == {s[i] : i \in DOMAIN s}

RECURSIVE Dedup(_)
\* list(dict.fromkeys(s)): first occurrences, in order
Dedup(s) ==
  IF s = <<>> THEN <<>>
  ELSE LET init == Dedup(SubSeq(s, 1, Len(s) - 1))
           x == s[Len(s)]
       IN IF x \in Range(init) THEN init ELSE Append(init, x)

RECURSIVE Filter(_, _)
\* [c for c in s if c not in drop]
Filter(s, drop) ==
  IF s = <<>> THEN <<>>
  ELSE LET init == Filter(SubSeq(s, 1, Len(s) - 1), drop)
           x == s[Len(s)]
       IN IF x \in drop THEN init ELSE Append(init, x)

RECURSIVE SortCols(_)
\* the names of a set of columns in increasing order
SortCols(S) ==
  IF S = {} THEN <<>>
  ELSE LET m == CHOOSE c \in S : \A o \in S : ColRank(c) <= ColRank(o)
       IN <<m>> \o SortCols(S \ {m})

RECURSIVE Flatten(_)
Flatten(ss) ==
  IF ss = <<>> THEN <<>> ELSE ss[1] \o Flatten(Tail(ss))

\* ------------------------------------------------------------- DataFrames
\* pd.DataFrame()
EmptyFrame == [cols |-> <<>>, rows |-> <<>>]

\* DataFrame.empty: some axis has length 0
IsEmpty(df) == Len(df.cols) = 0 \/ Len(df.rows) = 0

\* the key tuple of a row
KeyOf(r) == [i \in DOMAIN KeyCols |-> r[KeyCols[i]]]

\* df[c] = v
SetColumn(df, c, v) ==
  [cols |-> IF c \in Range(df.cols) THEN df.cols ELSE Append(df.cols, c),
   rows |-> [i \in DOMAIN df.rows |->
               [k \in Range(df.cols) \cup {c} |->
                  IF k = c THEN v ELSE df.rows[i][k]]]]

\* df.reindex(columns=cs): the columns cs, NaN where df has no such column
Reindex(df, cs) ==
  [cols |-> cs,
   rows |-> [i \in DOMAIN df.rows |->
               [k \in Range(cs) |->
                  IF k \in Range(df.cols) THEN df.rows[i][k] ELSE NaN]]]

\* Index.union (sort=None): the argument itself when the two are equal or one
\* is empty, the sorted union otherwise
IndexUnion(a, b) ==
  IF a = b \/ Len(b) = 0 THEN a
  ELSE IF Len(a) = 0 THEN b
  ELSE SortCols(Range(a) \cup Range(b))

\* ------------------------------------------------------------ the inputs
\* the key tuples a source file may hold (as read: not yet stripped)
RawKeys == {<<"1", "100">>, <<"2", " 100">>}

\* the key tuples after vep_annotations has stripped them
StrippedKeys == {[i \in DOMAIN KeyCols |-> Strip(k[i])] : k \in RawKeys}

\* a row of a source file: the key columns and one column of its own
SourceCols == <<"chr", "pos", "qual">>

SourceRow(k) == [c \in Range(SourceCols) |->
                   IF c = "chr" THEN k[1] ELSE IF c = "pos" THEN k[2] ELSE "q"]

\* a source file that has no "pos" column
NoPosFrame == [cols |-> <<"chr", "qual">>,
               rows |-> <<[c \in {"chr", "qual"} |-> IF c = "chr" THEN "1" ELSE "q"]>>]

\* the batches a load may return: up to MaxBatch rows (keys may repeat), or
\* the file that lacks a key column
Batches ==
  {[cols |-> SourceCols, rows |-> [i \in DOMAIN ks |-> SourceRow(ks[i])]] :
     ks \in UNION {[1..n -> RawKeys] : n \in 0..MaxBatch}}
  \cup {NoPosFrame}

\* the reference batches a validator may load: rows of the first variant
\* (the key may repeat), or the file that lacks a key column
RefBatches ==
  {[cols |-> SourceCols, rows |-> [i \in 1..n |-> SourceRow(<<"1", "100">>)]] :
     n \in 0..MaxBatch}
  \cup {NoPosFrame}

\* the stripped key of a row
StrippedKeyOf(r) == [i \in DOMAIN KeyCols |-> Strip(r[KeyCols[i]])]

\* the wrapper failed
VepFailed == [ok |-> FALSE, mult |-> [k \in StrippedKeys |-> 0]]

\* what one run of the VEP wrapper on the frame new (the new rows of a batch)
\* gives: it fails, or it reports mult[k] rows for the variant k, none for a
\* variant that it was not given
VepOutcomes(new) ==
  LET given == {StrippedKeyOf(new.rows[i]) : i \in DOMAIN new.rows}
  IN {VepFailed}
     \cup {[ok |-> TRUE, mult |-> m] :
             m \in {f \in [StrippedKeys -> 0..MaxMult] :
                      \A k \in StrippedKeys \ given : f[k] = 0}}

\* the annotation value of the j-th row VEP reports for a variant
Transcript(j) ==
  CASE j = 1 -> "t1"
    [] j = 2 -> "t2"
    [] j = 3 -> "t3"
    [] OTHER -> "t4"

\* ------------------------------------------------- Db (db.py, not in src/)
\* Db.upload_db: db.df becomes the batch read from the source's file
UploadDb(file) == file

\* Db.pre_process with the default pre-processor: the batch as it is
PreProcess(data) == data

\* how the load of a source ends: it succeeds, upload_db raises, or the
\* pre-processor raises
Loads == {"ok", "SourceLoadError", "SourceFormatError"}

\* merge_db, lines 79-83: upload_db when db.df is None, then pre_process:
\* [err, loaded, df], loaded and df being db.df after the two calls
LoadDb(loaded, df, file, load) ==
  IF ~loaded /\ load = "SourceLoadError"
  THEN [err |-> "SourceLoadError", loaded |-> FALSE, df |-> EmptyFrame]
  ELSE LET raw == IF loaded THEN df ELSE UploadDb(file)
       IN IF load = "SourceFormatError"
          THEN [err |-> "SourceFormatError", loaded |-> TRUE, df |-> raw]
          ELSE [err |-> "none", loaded |-> TRUE, df |-> PreProcess(raw)]

\* ------------------------------------------------------- annotation steps
\* vep_annotations(df): strip the keys of df, inner-join the VEP rows on the
\* keys (left order kept, one row per VEP row of the variant)
VepAnnotations(df, out) ==
  LET stripped == [i \in DOMAIN df.rows |->
                     [c \in Range(df.cols) |->
                        IF c \in Range(KeyCols) THEN Strip(df.rows[i][c])
                        ELSE df.rows[i][c]]]
      expand(r) == [j \in 1..out.mult[KeyOf(r)] |->
                      [c \in Range(df.cols) \cup Range(VepCols) |->
                         IF c \in Range(VepCols) THEN Transcript(j) ELSE r[c]]]
  IN [cols |-> df.cols \o VepCols,
      rows |-> Flatten([i \in DOMAIN stripped |-> expand(stripped[i])])]

\* db.instructions["annotations"][ann_func]["compute_function"](new_df)
ComputeFunction(ann_func, df, out) ==
  IF ann_func = "vep_annotations" THEN VepAnnotations(df, out) ELSE df

RECURSIVE RunAnnotations(_, _, _)
\* the loop over self.ann_funcs from step i on: [ok, df]; ok is FALSE when a
\* step raised
RunAnnotations(df, outs, i) ==
  IF i > Len(AnnFuncs) THEN [ok |-> TRUE, df |-> df]
  ELSE IF ~outs[i].ok THEN [ok |-> FALSE, df |-> df]
  ELSE RunAnnotations(ComputeFunction(AnnFuncs[i], df, outs[i]), outs, i + 1)

\* ----------------------------------------------------------- ExtendedTable
\* [db.name for db in dbs]
Names(dbs) == [i \in DOMAIN dbs |-> Name(dbs[i])]

\* ExtendedTable._order_with_keys_first
OrderWithKeysFirst(cols) == KeyCols \o Filter(cols, Range(KeyCols))

\* ExtendedTable.create_basic_table
CreateBasicTable(vdbs, valdbs) ==
  [cols |-> Dedup(KeyCols \o Names(vdbs) \o Names(valdbs)), rows |-> <<>>]

\* the keys of the rows of a frame
Keys(df) == {KeyOf(df.rows[i]) : i \in DOMAIN df.rows}

\* merge_db, lines 90-95: the table once it is initialised and has the
\* indicator column
WithIndicator(t, vdbs, valdbs, ind) ==
  LET t1 == IF IsEmpty(t) THEN CreateBasicTable(vdbs, valdbs) ELSE t
  IN IF ind \in Range(t1.cols) THEN t1 ELSE SetColumn(t1, ind, "0")

\* merge_db, lines 98-108: the batch rows whose key is not in the table
\* ('left_only'), in batch order, reduced to the key columns
NewDf(batch, t) ==
  LET idx == Filter([i \in DOMAIN batch.rows |-> i],
                    {i \in DOMAIN batch.rows : KeyOf(batch.rows[i]) \in Keys(t)})
  IN [cols |-> KeyCols,
      rows |-> [j \in DOMAIN idx |->
                  [c \in Range(KeyCols) |-> batch.rows[idx[j]][c]]]]

\* merge_db, line 113: the keys of the batch rows found in the table ('both')
ExistingKeys(batch, t) == Keys(batch) \cap Keys(t)

\* merge_db, lines 115-116: indicator 1 on the table rows whose key exists
MarkExisting(t, keys, ind) ==
  [cols |-> t.cols,
   rows |-> [i \in DOMAIN t.rows |->
               IF KeyOf(t.rows[i]) \in keys
               THEN [t.rows[i] EXCEPT ![ind] = "1"] ELSE t.rows[i]]]

\* (mutant) the assignment keeps the reindexed new rows only
ReconcileNewOnly(t, new) ==
  LET all_cols == OrderWithKeysFirst(IndexUnion(t.cols, new.cols))
  IN [cols |-> all_cols, rows |-> Reindex(new, all_cols).rows]

\* (mutant) the new rows are put before the rows of the table
ReconcileNewFirst(t, new) ==
  LET all_cols == OrderWithKeysFirst(IndexUnion(t.cols, new.cols))
  IN [cols |-> all_cols,
      rows |-> Reindex(new, all_cols).rows \o Reindex(t, all_cols).rows]

\* merge_db, lines 129-142: union of the columns, keys first, both frames
\* reindexed, the new rows appended
Reconcile(t, new) ==
  LET all_cols == OrderWithKeysFirst(IndexUnion(t.cols, new.cols))
  IN [cols |-> all_cols,
      rows |-> Reindex(t, all_cols).rows \o Reindex(new, all_cols).rows]

\* (mutant) any Db passes the check
IsAnyDb(d) == Kind(d) \in {"VariantsDb", "ValidationDb"}

\* merge_db, line 75: isinstance(db, VariantsDb)
IsVariantsDb(d) == Kind(d) = "VariantsDb"

\* ExtendedTable.merge_db from line 85 on, the batch loaded and
\* pre-processed: [table, err, keep, nNew, nOut], keep = db.df stays loaded
MergeDb(t, vdbs, valdbs, ind, batch, outs) ==
  LET t2 == WithIndicator(t, vdbs, valdbs, ind)
  IN IF ~(Range(KeyCols) \subseteq Range(batch.cols))
     THEN [table |-> t2, err |-> "KeyError", keep |-> TRUE, nNew |-> 0, nOut |-> 0]
     ELSE
       LET t3 == MarkExisting(t2, ExistingKeys(batch, t2), ind)
           new0 == NewDf(batch, t2)
           new1 == SetColumn(new0, ind, "1")
           ann == RunAnnotations(new1, outs, 1)
       IN IF ~ann.ok
          THEN [table |-> t3, err |-> "AnnotationError", keep |-> TRUE,
                nNew |-> Len(new0.rows), nOut |-> 0]
          ELSE [table |-> Reconcile(t3, ann.df), err |-> "none", keep |-> FALSE,
                nNew |-> Len(new0.rows), nOut |-> Len(ann.df.rows)]

\* (mutant) the table is initialised before the source is loaded
MergeFromInitFirst(t, vdbs, valdbs, ind, ld, outs) ==
  IF ld.err # "none"
  THEN [table |-> WithIndicator(t, vdbs, valdbs, ind), err |-> ld.err,
        keep |-> ld.loaded, nNew |-> 0, nOut |-> 0]
  ELSE MergeDb(t, vdbs, valdbs, ind, ld.df, outs)

\* ExtendedTable.merge_db from line 79 on: a load that raises ends the call
\* before the table is touched
MergeFrom(t, vdbs, valdbs, ind, ld, outs) ==
  IF ld.err # "none"
  THEN [table |-> t, err |-> ld.err, keep |-> ld.loaded, nNew |-> 0, nOut |-> 0]
  ELSE MergeDb(t, vdbs, valdbs, ind, ld.df, outs)

\* ------------------------------------------------------------- validation
\* validate(db, df), validation/default/instructions.py: [table, err].  The
\* mask merged_df['_merge'] == 'both' has one entry per row of the left merge
\* (a table row matched by m > 1 reference rows gives m entries); .loc takes
\* the entry at the position of each table row
Validate(t, name, ref) ==
  IF ~(Range(KeyCols) \subseteq Range(t.cols))
  THEN [table |-> t, err |-> "ValueError"]
  ELSE
    LET t1 == SetColumn(t, name, "0")
    IN IF ~(Range(KeyCols) \subseteq Range(ref.cols))
       THEN [table |-> t1, err |-> "KeyError"]
       ELSE
         LET hits(r) == Cardinality({j \in DOMAIN ref.rows :
                                       KeyOf(ref.rows[j]) = KeyOf(r)})
             mask == Flatten([i \in DOMAIN t1.rows |->
                        IF hits(t1.rows[i]) = 0 THEN <<FALSE>>
                        ELSE [j \in 1..hits(t1.rows[i]) |-> TRUE]])
         IN [table |-> [cols |-> t1.cols,
                        rows |-> [i \in DOMAIN t1.rows |->
                                    IF mask[i] THEN [t1.rows[i] EXCEPT ![name] = "1"]
                                    ELSE t1.rows[i]]],
             err |-> "none"]

\* run_validation(db, df): load and pre-process the reference, then validate
RunValidation(t, name, file) == Validate(t, name, PreProcess(UploadDb(file)))

RECURSIVE ValidateFrom(_, _, _, _)
\* ExtendedTable.validate_table from the i-th validator on: [table, err]; a
\* validator that raises ends the loop
ValidateFrom(t, valdbs, files, i) ==
  IF i > Len(valdbs) THEN [table |-> t, err |-> "none"]
  ELSE
    LET r == RunValidation(t, Name(valdbs[i]), files[i])
    IN IF r.err # "none" THEN r
       ELSE ValidateFrom(r.table, valdbs, files, i + 1)

\* ------------------------------------------------------------------ state
VARIABLES
  table,           \* ExtendedTable.table
  variant_dbs,     \* ExtendedTable.variant_dbs
  validation_dbs,  \* ExtendedTable.validation_dbs
  dfs,             \* db.df of the VariantsDb objects whose batch is loaded (not
                   \* None); a validator reloads its db.df in every validation
                   \* before reading it, so the value it leaves is not kept
  err,             \* the exception the last call raised, "none" if it returned
  last,            \* the last call: its name and, for merge_db, its argument
  sc,              \* the scenario of SpecPair, SpecVal or SpecAnn (idle under Spec)
  run              \* the call of add_genome_ref_column or _lookup_one of
                   \* 2nd_run.py (idle while the merge engine is modelled)

vars == <<table, variant_dbs, validation_dbs, dfs, err, last, sc, run>>

\* no call of 2nd_run.py is under way
RunIdle == [pc |-> "idle"]

\* the scenario before its inputs are drawn
ScIdle == [pc |-> "idle"]

\* ExtendedTable.__init__ with no sources given
Init ==
  /\ table = EmptyFrame
  /\ variant_dbs = <<>>
  /\ validation_dbs = <<>>
  /\ dfs = [d \in {} |-> EmptyFrame]
  /\ err = "none"
  /\ last = [op |-> "init", db |-> "-"]
  /\ run = RunIdle
  /\ sc = ScIdle

\* ExtendedTable.register_db(d)
register_db(d) ==
  /\ last' = [op |-> "register_db", db |-> "-"]
  /\ UNCHANGED <<table, dfs, sc, run>>
  /\ CASE Kind(d) = "VariantsDb" ->
            /\ Len(variant_dbs) < MaxRegs
            /\ variant_dbs' = Append(variant_dbs, d)
            /\ err' = "none"
            /\ UNCHANGED validation_dbs
       [] Kind(d) = "ValidationDb" ->
            /\ Len(validation_dbs) < MaxRegs
            /\ validation_dbs' = Append(validation_dbs, d)
            /\ err' = "none"
            /\ UNCHANGED variant_dbs
       [] OTHER ->
            /\ err' = "ValueError"
            /\ UNCHANGED <<variant_dbs, validation_dbs>>

\* ExtendedTable.merge_db(d); load is how the load ends, file what upload_db
\* reads, outs the outcome of each annotation step
merge_db(d, load, file, outs) ==
  /\ UNCHANGED <<variant_dbs, validation_dbs, sc, run>>
  /\ last' = [op |-> "merge_db", db |-> d]
  /\ IF ~IsVariantsDb(d)
     THEN /\ err' = "ValueError"
          /\ UNCHANGED <<table, dfs>>
     ELSE \E ld \in {LoadDb(d \in DOMAIN dfs,
                            IF d \in DOMAIN dfs THEN dfs[d] ELSE EmptyFrame,
                            file, load)} :
          \E r \in {MergeFrom(table, variant_dbs, validation_dbs, Name(d), ld, outs)} :
             /\ Len(r.table.rows) <= MaxRows
             /\ r.keep => Cardinality(DOMAIN dfs \cup {d}) <= MaxLoaded
             /\ table' = r.table
             /\ err' = r.err
             /\ dfs' = IF r.keep
                       THEN [x \in DOMAIN dfs \cup {d} |-> IF x = d THEN ld.df ELSE dfs[x]]
                       ELSE [x \in DOMAIN dfs \ {d} |-> dfs[x]]

\* ExtendedTable.validate_table(); files[i] is what the i-th validator loads
validate_table(files) ==
  \E r \in {ValidateFrom(table, validation_dbs, files, 1)} :
     /\ table' = r.table
     /\ err' = r.err
     /\ last' = [op |-> "validate_table", db |-> "-"]
     /\ UNCHANGED <<variant_dbs, validation_dbs, dfs, sc, run>>

\* the inputs a call merge_db(d) reads: how the load ends (upload_db runs only
\* when no batch is loaded), a file when it loads the batch, the outcomes of
\* the annotation steps when it gets that far
LoadsRead(d) ==
  IF ~IsVariantsDb(d) THEN {"ok"}
  ELSE IF d \in DOMAIN dfs THEN Loads \ {"SourceLoadError"} ELSE Loads

FilesRead(d, load) ==
  IF IsVariantsDb(d) /\ d \notin DOMAIN dfs /\ load # "SourceLoadError"
  THEN Batches ELSE {EmptyFrame}

OutcomesRead(d, load, file) ==
  LET batch == IF d \in DOMAIN dfs THEN dfs[d] ELSE file
  IN IF IsVariantsDb(d) /\ load = "ok" /\ Range(KeyCols) \subseteq Range(batch.cols)
     THEN [DOMAIN AnnFuncs -> VepOutcomes(NewDf(batch, table))]
     ELSE {[i \in DOMAIN AnnFuncs |-> VepFailed]}

\* register_db is handed any object, merge_db a Db
Next ==
  \/ \E d \in DbObjs : register_db(d)
  \/ \E d \in Dbs : \E load \in LoadsRead(d) : \E file \in FilesRead(d, load) :
     \E outs \in OutcomesRead(d, load, file) :
       merge_db(d, load, file, outs)
  \/ \E files \in [DOMAIN validation_dbs -> RefBatches] : validate_table(files)

Spec == Init /\ [][Next]_vars

\* ------------------------------------------------ the two-source scenario
\* Two VariantsDb objects A = dbX and B = dbY, each with its own file and its
\* own (deterministic) VEP answer, are merged into an empty table in both
\* orders: sc.ab holds the table of the order A, B and sc.ba that of the order
\* B, A.  Then B is merged a second time into sc.ab, with the same file and the
\* same VEP answer.  sc.prev is sc.ab before the last merge, sc.file and sc.out
\* what that merge read, sc.nNew and sc.nOut what it counted.

\* the batches that have the key columns
KeyedBatches == Batches \ {NoPosFrame}

\* the answers of a VEP run that does not fail
VepAnswers == {[ok |-> TRUE, mult |-> m] : m \in [StrippedKeys -> 0..MaxMult]}

\* merge_all_dbs registers nothing: the lists are those given to __init__
ScRegs(reg) == IF reg THEN <<"dbX", "dbY">> ELSE <<>>

\* merge_db(d) of the scenario on the table t
ScMerge(t, reg, d, file, out) ==
  MergeDb(t, ScRegs(reg), <<>>, Name(d), PreProcess(UploadDb(file)),
          [i \in DOMAIN AnnFuncs |-> out])

PairInit ==
  /\ table = EmptyFrame
  /\ variant_dbs = <<>>
  /\ validation_dbs = <<>>
  /\ dfs = [d \in {} |-> EmptyFrame]
  /\ err = "none"
  /\ last = [op |-> "init", db |-> "-"]
  /\ run = RunIdle
  /\ \E reg \in BOOLEAN, fileA \in KeyedBatches, fileB \in KeyedBatches,
        outA \in VepAnswers, outB \in VepAnswers :
       sc = [pc |-> "start", reg |-> reg, fileA |-> fileA, fileB |-> fileB,
             outA |-> outA, outB |-> outB,
             ab |-> EmptyFrame, ba |-> EmptyFrame, prev |-> EmptyFrame,
             file |-> EmptyFrame, out |-> outA, nNew |-> 0, nOut |-> 0]

\* the first merge of each order
PairFirst ==
  /\ sc.pc = "start"
  /\ \E a \in {ScMerge(EmptyFrame, sc.reg, "dbX", sc.fileA, sc.outA)} :
     \E b \in {ScMerge(EmptyFrame, sc.reg, "dbY", sc.fileB, sc.outB)} :
       sc' = [sc EXCEPT !.pc = "one", !.ab = a.table, !.ba = b.table,
                        !.prev = EmptyFrame, !.file = sc.fileA, !.out = sc.outA,
                        !.nNew = a.nNew, !.nOut = a.nOut]
  /\ UNCHANGED <<table, variant_dbs, validation_dbs, dfs, err, last, run>>

\* the second merge of each order
PairSecond ==
  /\ sc.pc = "one"
  /\ \E a \in {ScMerge(sc.ab, sc.reg, "dbY", sc.fileB, sc.outB)} :
     \E b \in {ScMerge(sc.ba, sc.reg, "dbX", sc.fileA, sc.outA)} :
       sc' = [sc EXCEPT !.pc = "two", !.ab = a.table, !.ba = b.table,
                        !.prev = sc.ab, !.file = sc.fileB, !.out = sc.outB,
                        !.nNew = a.nNew, !.nOut = a.nOut]
  /\ UNCHANGED <<table, variant_dbs, validation_dbs, dfs, err, last, run>>

\* B merged again after the order A, B
PairRemerge ==
  /\ sc.pc = "two"
  /\ \E a \in {ScMerge(sc.ab, sc.reg, "dbY", sc.fileB, sc.outB)} :
       sc' = [sc EXCEPT !.pc = "three", !.ab = a.table,
                        !.prev = sc.ab, !.file = sc.fileB, !.out = sc.outB,
                        !.nNew = a.nNew, !.nOut = a.nOut]
  /\ UNCHANGED <<table, variant_dbs, validation_dbs, dfs, err, last, run>>

PairNext == PairFirst \/ PairSecond \/ PairRemerge

SpecPair == PairInit /\ [][PairNext]_vars

\* ------------------------------------------------ the validation scenario
\* A table is built by one merge of the VariantsDb sc.d into an empty table
\* (sc.reg: the sources were given to __init__, so create_basic_table knows
\* them).  Then the validators valV (named V) and valY (named Y, as the
\* VariantsDb dbY is) validate it, each with its own reference batch, in both
\* orders: sc.vy is the table of the order valV, valY and sc.yv that of the
\* order valY, valV.  sc.prev is sc.vy before its last validation, sc.v the
\* validator that ran it, sc.ref its reference batch, sc.err what it raised.
ValInit ==
  /\ table = EmptyFrame
  /\ variant_dbs = <<>>
  /\ validation_dbs = <<>>
  /\ dfs = [d \in {} |-> EmptyFrame]
  /\ err = "none"
  /\ last = [op |-> "init", db |-> "-"]
  /\ run = RunIdle
  /\ \E d \in {"dbX", "dbY"}, reg \in BOOLEAN, file \in KeyedBatches,
        out \in VepAnswers, refV \in RefBatches, refY \in RefBatches :
       sc = [pc |-> "vstart", d |-> d, reg |-> reg, file |-> file, out |-> out,
             refV |-> refV, refY |-> refY,
             vy |-> EmptyFrame, yv |-> EmptyFrame, prev |-> EmptyFrame,
             v |-> "valV", ref |-> refV, err |-> "none"]

\* merge_db(sc.d) into the empty table
ValBuild ==
  /\ sc.pc = "vstart"
  /\ \E r \in {MergeDb(EmptyFrame,
                       IF sc.reg THEN <<sc.d>> ELSE <<>>,
                       IF sc.reg THEN <<"valV", "valY">> ELSE <<>>,
                       Name(sc.d), PreProcess(UploadDb(sc.file)),
                       [i \in DOMAIN AnnFuncs |-> sc.out])} :
       sc' = [sc EXCEPT !.pc = "built", !.vy = r.table, !.yv = r.table,
                        !.prev = r.table]
  /\ UNCHANGED <<table, variant_dbs, validation_dbs, dfs, err, last, run>>

\* the first validator of each order
ValFirst ==
  /\ sc.pc = "built"
  /\ \E a \in {RunValidation(sc.vy, Name("valV"), sc.refV)} :
     \E b \in {RunValidation(sc.yv, Name("valY"), sc.refY)} :
       sc' = [sc EXCEPT !.pc = "v1", !.vy = a.table, !.yv = b.table,
                        !.prev = sc.vy, !.v = "valV", !.ref = sc.refV,
                        !.err = a.err]
  /\ UNCHANGED <<table, variant_dbs, validation_dbs, dfs, err, last, run>>

\* the second validator of each order
ValSecond ==
  /\ sc.pc = "v1"
  /\ \E a \in {RunValidation(sc.vy, Name("valY"), sc.refY)} :
     \E b \in {RunValidation(sc.yv, Name("valV"), sc.refV)} :
       sc' = [sc EXCEPT !.pc = "v2", !.vy = a.table, !.yv = b.table,
                        !.prev = sc.vy, !.v = "valY", !.ref = sc.refY,
                        !.err = a.err]
  /\ UNCHANGED <<table, variant_dbs, validation_dbs, dfs, err, last, run>>

ValNext == ValBuild \/ ValFirst \/ ValSecond

SpecVal == ValInit /\ [][ValNext]_vars

\* ------------------------------------------------ the annotation scenario
\* The annotation loop of merge_db (lines 118-128), one step at a time, for an
\* ExtendedTable whose ann_funcs is sc.ann_funcs and a VariantsDb dbY whose
\* instructions["annotations"] holds the steps sc.registry (in the order they
\* were entered).  sc.t is the table (built by one merge of dbX), sc.batch the
\* batch of dbY, sc.new the frame new_df, sc.i the next step of the loop,
\* sc.calls the calls made so far: the step, the frame it was given, whether
\* it returned None, and the frame the loop goes on with.

\* the annotation steps a source may have
StepNames == {"vep_annotations", "isADARFixable"}

\* a list of different step names
StepLists ==
  {<<>>} \cup {<<f>> : f \in StepNames}
  \cup {<<p[1], p[2]>> : p \in {q \in StepNames \X StepNames : q[1] # q[2]}}

\* isADARFixable(df) of the legacy convention: check_columns, then a new
\* column written into df itself, None returned.  The column of VEP's output
\* it reads is the model's Gene.  [err, none, out]
IsADARFixable(df) ==
  IF ~(Range(VepCols) \subseteq Range(df.cols))
  THEN [err |-> "ValueError", none |-> TRUE, out |-> df]
  ELSE [err |-> "none", none |-> TRUE, out |-> SetColumn(df, "is_ADAR_fixable", "F")]

\* fn = db.instructions["annotations"][ann_func]["compute_function"];
\* result = fn(new_df); new_df = result unless it is None: [err, none, out],
\* out being new_df after the step
CallStep(registry, ann_func, df, out) ==
  IF ann_func \notin Range(registry)
  THEN [err |-> "KeyError", none |-> TRUE, out |-> df]
  ELSE IF ann_func = "isADARFixable" THEN IsADARFixable(df)
  ELSE IF ~out.ok THEN [err |-> "AnnotationError", none |-> TRUE, out |-> df]
  ELSE [err |-> "none", none |-> FALSE, out |-> ComputeFunction(ann_func, df, out)]

AnnInit ==
  /\ table = EmptyFrame
  /\ variant_dbs = <<>>
  /\ validation_dbs = <<>>
  /\ dfs = [d \in {} |-> EmptyFrame]
  /\ err = "none"
  /\ last = [op |-> "init", db |-> "-"]
  /\ run = RunIdle
  /\ \E fs \in StepLists, reg \in StepLists, first \in KeyedBatches,
        batch \in KeyedBatches, out \in VepAnswers \cup {VepFailed} :
       /\ Len(first.rows) <= 1
       /\ sc = [pc |-> "astart", ann_funcs |-> fs, registry |-> reg,
                first |-> first, batch |-> batch, out |-> out,
                t |-> EmptyFrame, new |-> EmptyFrame, i |-> 1,
                calls |-> <<>>, err |-> "none"]

\* merge_db(dbY) up to line 119: the partition and the indicator of the new
\* rows, on the table one merge of dbX has built
AnnPartition ==
  /\ sc.pc = "astart"
  /\ \E t0 \in {ScMerge(EmptyFrame, FALSE, "dbX", sc.first,
                        [ok |-> TRUE, mult |-> [k \in StrippedKeys |-> 1]]).table} :
     \E t2 \in {WithIndicator(t0, <<>>, <<>>, Name("dbY"))} :
       sc' = [sc EXCEPT !.pc = "loop",
                        !.t = MarkExisting(t2, ExistingKeys(sc.batch, t2), Name("dbY")),
                        !.new = SetColumn(NewDf(sc.batch, t2), Name("dbY"), "1")]
  /\ UNCHANGED <<table, variant_dbs, validation_dbs, dfs, err, last, run>>

\* one turn of the loop over self.ann_funcs (lines 124-128)
AnnStep ==
  /\ sc.pc = "loop"
  /\ sc.i <= Len(sc.ann_funcs)
  /\ \E r \in {CallStep(sc.registry, sc.ann_funcs[sc.i], sc.new, sc.out)} :
       sc' = [sc EXCEPT !.pc = IF r.err = "none" THEN "loop" ELSE "raised",
                        !.err = r.err,
                        !.new = r.out,
                        !.i = sc.i + 1,
                        !.calls = IF r.err = "KeyError" THEN sc.calls
                                  ELSE Append(sc.calls,
                                              [step |-> sc.ann_funcs[sc.i],
                                               arg |-> sc.new,
                                               none |-> r.none,
                                               out |-> r.out])]
  /\ UNCHANGED <<table, variant_dbs, validation_dbs, dfs, err, last, run>>

\* the loop is over: lines 129-142
AnnReconcile ==
  /\ sc.pc = "loop"
  /\ sc.i > Len(sc.ann_funcs)
  /\ sc' = [sc EXCEPT !.pc = "done", !.t = Reconcile(sc.t, sc.new)]
  /\ UNCHANGED <<table, variant_dbs, validation_dbs, dfs, err, last, run>>

AnnNext == AnnPartition \/ AnnStep \/ AnnReconcile

SpecAnn == AnnInit /\ [][AnnNext]_vars

\* -------------------------------------------------------------- 2nd_run.py
\* A string is the sequence of its characters.
Chr == <<"c", "h", "r">>

\* the characters of the chromosome names
Chars == {"c", "h", "r", "1"}

\* the chromosome names a row may hold
ChromNames == UNION {[1..n -> Chars] : n \in 1..MaxChromLen}

RECURSIVE LStrip(_, _)
\* str.lstrip(chars): the leading characters that are in chars are removed
LStrip(s, chars) ==
  IF s = <<>> THEN <<>>
  ELSE IF Head(s) \in chars THEN LStrip(Tail(s), chars) ELSE s

\* _lookup_one, line 49: "chr" + str(chrom).lstrip("chr")
LookupName(chrom) == Chr \o LStrip(chrom, Range(Chr))

\* the reference: the sequence of each of its contigs
Fasta == [name \in {<<"c", "h", "r", "1">>} |-> <<"a", "C", "g">>]

\* str.upper() on a base
Upper(b) ==
  CASE b = "a" -> "A"
    [] b = "c" -> "C"
    [] b = "g" -> "G"
    [] b = "t" -> "T"
    [] OTHER -> b

\* _lookup_one, lines 49-51: [ok, seq]; ok is FALSE when the contig is not in
\* the reference (KeyError); the slice ends where the contig ends
LookupOne(chrom, pos, ref) ==
  LET name == LookupName(chrom)
  IN IF name \notin DOMAIN Fasta THEN [ok |-> FALSE, seq |-> <<>>]
     ELSE LET contig == Fasta[name]
              stop == IF pos - 1 + Len(ref) < Len(contig)
                      THEN pos - 1 + Len(ref) ELSE Len(contig)
          IN [ok |-> TRUE,
              seq |-> [j \in 1..(IF stop >= pos THEN stop - pos + 1 ELSE 0) |->
                         Upper(contig[pos + j - 1])]]

\* one call of _lookup_one: the name it looks up and what it returns
LookupInit ==
  /\ table = EmptyFrame
  /\ variant_dbs = <<>>
  /\ validation_dbs = <<>>
  /\ dfs = [d \in {} |-> EmptyFrame]
  /\ err = "none"
  /\ last = [op |-> "init", db |-> "-"]
  /\ sc = ScIdle
  /\ \E chrom \in ChromNames :
       run = [pc |-> "lookup", chrom |-> chrom, pos |-> 1, ref |-> <<"A">>,
              name |-> <<>>, ok |-> FALSE, seq |-> <<>>]

LookupCall ==
  /\ run.pc = "lookup"
  /\ \E r \in {LookupOne(run.chrom, run.pos, run.ref)} :
       run' = [run EXCEPT !.pc = "returned", !.name = LookupName(run.chrom),
                          !.ok = r.ok, !.seq = r.seq]
  /\ UNCHANGED <<table, variant_dbs, validation_dbs, dfs, err, last, sc>>

SpecLookup == LookupInit /\ [][LookupCall]_vars

\* add_genome_ref_column(df, fasta_path, genome_version, workers, chunk_size)
\* with a valid genome_version, the columns chr, pos, ref and a FASTA that
\* opens.  run.df are the rows of df, run.col the column df[genome_version],
\* run.results the list results (None where nothing is written yet), run.ci
\* the chunk, run.queue the work queue of the chunk's ThreadPoolExecutor,
\* run.thr its threads (task: the row being looked up, 0 if none; fasta:
\* _thread_local.fasta, 0 if unset, else the thread that opened the handle),
\* run.fut the futures by row, run.wait the row whose future the main thread
\* waits for, run.by[i] the thread that looked row i up and run.handle[i] the
\* opener of the handle it used.

\* None, as a cell of results
None == <<"None">>

\* the rows of df
LookupRows ==
  {[chr |-> <<"1">>, pos |-> 1, ref |-> <<"A">>],
   [chr |-> <<"c", "h", "r", "1">>, pos |-> 2, ref |-> <<"C", "G">>],
   [chr |-> <<"1", "1">>, pos |-> 1, ref |-> <<"A">>]}

\* math.ceil(n / chunk_size)
NumChunks(n, chunk_size) == (n + chunk_size - 1) \div chunk_size

\* min(start + chunk_size, n)
ChunkEnd(ci, chunk_size, n) ==
  IF ci * chunk_size + chunk_size < n THEN ci * chunk_size + chunk_size ELSE n

\* (mutant) one handle, kept in a module-level variable, for all the threads
GetFastaShared(thr, w) ==
  IF \E v \in DOMAIN thr : thr[v].fasta # 0
  THEN thr[CHOOSE v \in DOMAIN thr : thr[v].fasta # 0].fasta
  ELSE w

\* _get_fasta_for_thread: the handle of the calling thread w, opened by w when
\* its _thread_local has none
GetFastaForThread(thr, w) ==
  IF thr[w].fasta = 0 THEN w ELSE thr[w].fasta

\* (mutant) a failed lookup is skipped
CollectOneSkip(results, i, f) ==
  IF f.ok THEN [ok |-> TRUE, results |-> [results EXCEPT ![i] = f.seq]]
  ELSE [ok |-> TRUE, results |-> results]

\* lines 110-114: seq = fut.result(); results[i] = seq, unless the lookup
\* raised
CollectOne(results, i, f) ==
  IF f.ok THEN [ok |-> TRUE, results |-> [results EXCEPT ![i] = f.seq]]
  ELSE [ok |-> FALSE, results |-> results]

RefInit ==
  /\ table = EmptyFrame
  /\ variant_dbs = <<>>
  /\ validation_dbs = <<>>
  /\ dfs = [d \in {} |-> EmptyFrame]
  /\ err = "none"
  /\ last = [op |-> "init", db |-> "-"]
  /\ sc = ScIdle
  /\ \E n \in 1..MaxLookups, workers \in 1..MaxWorkers, chunk_size \in 1..MaxChunk :
     \E df \in [1..n -> LookupRows] :
       run = [pc |-> "chunk", df |-> df, workers |-> workers,
              chunk_size |-> chunk_size, ci |-> 0,
              results |-> [i \in 1..n |-> None],
              queue |-> <<>>,
              thr |-> [w \in 1..workers |-> [task |-> 0, fasta |-> 0]],
              fut |-> [i \in 1..n |-> [st |-> "none", ok |-> FALSE, seq |-> <<>>]],
              wait |-> 0,
              by |-> [i \in 1..n |-> 0],
              handle |-> [i \in 1..n |-> 0],
              col |-> [present |-> FALSE, cells |-> <<>>],
              err |-> "none"]

\* lines 92-107: a new pool for the chunk, its rows submitted in order
StartChunk ==
  /\ run.pc = "chunk"
  /\ run.ci < NumChunks(Len(run.df), run.chunk_size)
  /\ LET start == run.ci * run.chunk_size
         end == ChunkEnd(run.ci, run.chunk_size, Len(run.df))
     IN run' = [run EXCEPT
                  !.pc = "collect",
                  !.queue = [j \in 1..(end - start) |-> start + j],
                  !.thr = [w \in 1..run.workers |-> [task |-> 0, fasta |-> 0]],
                  !.fut = [i \in DOMAIN run.fut |->
                             IF i > start /\ i <= end
                             THEN [st |-> "pending", ok |-> FALSE, seq |-> <<>>]
                             ELSE run.fut[i]],
                  !.wait = start + 1]
  /\ UNCHANGED <<table, variant_dbs, validation_dbs, dfs, err, last, sc>>

\* a thread of the pool takes the next row of the queue
WorkerTake(w) ==
  /\ run.pc \in {"collect", "exiting"}
  /\ run.thr[w].task = 0
  /\ run.queue # <<>>
  /\ run' = [run EXCEPT !.thr[w].task = Head(run.queue), !.queue = Tail(run.queue)]
  /\ UNCHANGED <<table, variant_dbs, validation_dbs, dfs, err, last, sc>>

\* the thread runs _lookup_one on its row and sets the future
WorkerLookup(w) ==
  /\ run.pc \in {"collect", "exiting"}
  /\ run.thr[w].task # 0
  /\ LET i == run.thr[w].task
         h == GetFastaForThread(run.thr, w)
         r == LookupOne(run.df[i].chr, run.df[i].pos, run.df[i].ref)
     IN run' = [run EXCEPT
                  !.thr[w] = [task |-> 0, fasta |-> h],
                  !.fut[i] = [st |-> "done", ok |-> r.ok, seq |-> r.seq],
                  !.by[i] = w,
                  !.handle[i] = h]
  /\ UNCHANGED <<table, variant_dbs, validation_dbs, dfs, err, last, sc>>

\* lines 109-114: the main thread takes the result of the next future, in the
\* order of submission; a lookup that raised makes it leave the with block
Collect ==
  /\ run.pc = "collect"
  /\ run.fut[run.wait].st = "done"
  /\ \E c \in {CollectOne(run.results, run.wait, run.fut[run.wait])} :
       IF ~c.ok
       THEN run' = [run EXCEPT !.pc = "exiting"]
       ELSE IF run.wait = ChunkEnd(run.ci, run.chunk_size, Len(run.df))
       THEN run' = [run EXCEPT !.results = c.results, !.pc = "chunk",
                               !.ci = run.ci + 1]
       ELSE run' = [run EXCEPT !.results = c.results, !.wait = run.wait + 1]
  /\ UNCHANGED <<table, variant_dbs, validation_dbs, dfs, err, last, sc>>

\* the with block is left by the exception: the pool is shut down once its
\* threads have run the rows submitted, then RuntimeError reaches the caller
Raise ==
  /\ run.pc = "exiting"
  /\ run.queue = <<>>
  /\ \A w \in DOMAIN run.thr : run.thr[w].task = 0
  /\ run' = [run EXCEPT !.pc = "raised", !.err = "RuntimeError"]
  /\ UNCHANGED <<table, variant_dbs, validation_dbs, dfs, err, last, sc>>

\* line 119: df[genome_version] = results
Commit ==
  /\ run.pc = "chunk"
  /\ run.ci = NumChunks(Len(run.df), run.chunk_size)
  /\ run' = [run EXCEPT !.pc = "done",
                        !.col = [present |-> TRUE, cells |-> run.results]]
  /\ UNCHANGED <<table, variant_dbs, validation_dbs, dfs, err, last, sc>>

RefNext ==
  \/ StartChunk
  \/ \E w \in 1..MaxWorkers : w \in DOMAIN run.thr /\ WorkerTake(w)
  \/ \E w \in 1..MaxWorkers : w \in DOMAIN run.thr /\ WorkerLookup(w)
  \/ Collect
  \/ Raise
  \/ Commit

SpecRef == RefInit /\ [][RefNext]_vars

\* ================================================================ claims
\* the names of the sources: the names an indicator column can have
SourceNames == {Name(d) : d \in {x \in DbObjs : Kind(x) # "object"}}

\* the indicator columns of a frame
IndicatorCols(df) == Range(df.cols) \cap SourceNames

\* C1: after any sequence of merges at most one table row has a given key
\* (stated as the claim states it; the code breaks it).
C1_Uniqueness ==
  \A i, j \in DOMAIN table.rows :
    KeyOf(table.rows[i]) = KeyOf(table.rows[j]) => i = j

\* C2: every row a successful merge_db(Y) appends has indicator 1 for Y and
\* indicator 0 for every other source whose column is in the table (stated as
\* the claim states it; the code breaks it).
C2_NewRowIndicators ==
  [][(last'.op = "merge_db" /\ err' = "none") =>
       \A i \in (Len(table.rows) + 1)..Len(table'.rows) :
         \A c \in IndicatorCols(table') :
           table'.rows[i][c] = IF c = Name(last'.db) THEN "1" ELSE "0"]_vars

\* C3: an indicator cell that is 1 stays 1 through every later merge_db and
\* validate_table (stated as the claim states it; the code breaks it).
C3_MonotonicIndicators ==
  [][\A i \in DOMAIN table.rows : \A c \in IndicatorCols(table) :
       table.rows[i][c] = "1" =>
         /\ i \in DOMAIN table'.rows
         /\ c \in Range(table'.cols)
         /\ table'.rows[i][c] = "1"]_vars

\* C5: the column set of the table after a merge_db call contains its column
\* set before the call (stated as the claim states it; the code breaks it).
C5_ColumnMonotonicity ==
  [][last'.op = "merge_db" => Range(table.cols) \subseteq Range(table'.cols)]_vars

\* C8: merge_db called with anything but a VariantsDb raises and changes
\* neither the table, nor the registered lists, nor any loaded batch.
C8_RejectsNonVariants ==
  [][(last'.op = "merge_db" /\ Kind(last'.db) # "VariantsDb") =>
       /\ err' = "ValueError"
       /\ UNCHANGED <<table, variant_dbs, validation_dbs, dfs>>]_vars

\* C8 witness: a validation-only source was handed to merge_db while the table
\* held rows and some batch was loaded, and the call raised
C8_Witness ==
  /\ last.op = "merge_db"
  /\ Kind(last.db) = "ValidationDb"
  /\ err = "ValueError"
  /\ Len(table.rows) > 0
  /\ DOMAIN dfs # {}

\* C9: a merge_db call that raises because the batch lacks a key column leaves
\* the table as it was (stated as the claim states it; the code breaks it).
C9_KeyErrorLeavesTable ==
  [][(last'.op = "merge_db" /\ err' = "KeyError") => table' = table]_vars

\* C10: no two registered sources share a name (stated as the claim states it;
\* the code breaks it).
C10_NoDuplicateNames ==
  LET names == Names(variant_dbs) \o Names(validation_dbs)
  IN \A i, j \in DOMAIN names : names[i] = names[j] => i = j

\* some row of key k has indicator 1 for the source named s
Flagged(t, k, s) ==
  /\ s \in Range(t.cols)
  /\ \E i \in DOMAIN t.rows : KeyOf(t.rows[i]) = k /\ t.rows[i][s] = "1"

\* C4: merging B a second time with the same batch and the same annotation
\* answers appends no row and changes no indicator cell (stated as the claim
\* states it; the code breaks it).
C4_IdempotentRemerge ==
  sc.pc = "three" =>
    /\ Len(sc.ab.rows) = Len(sc.prev.rows)
    /\ \A i \in DOMAIN sc.prev.rows : \A c \in IndicatorCols(sc.prev) :
         sc.ab.rows[i][c] = sc.prev.rows[i][c]

\* C6: the orders A, B and B, A give the same set of keys and the same
\* indicator in every (key, source) cell, a cell that is 0 or missing counting
\* as the same "not 1" (stated as the claim states it; the code breaks it).
C6_Commutativity ==
  sc.pc = "two" =>
    /\ Keys(sc.ab) = Keys(sc.ba)
    /\ \A k \in Keys(sc.ab) : \A s \in SourceNames :
         Flagged(sc.ab, k, s) <=> Flagged(sc.ba, k, s)

\* the rows of the merged file whose key was not in the table before the merge
ScNewRows == {i \in DOMAIN sc.file.rows : KeyOf(sc.file.rows[i]) \notin Keys(sc.prev)}

\* the keys of the new rows for which the annotation step returned no row
ScDroppedKeys ==
  {StrippedKeyOf(sc.file.rows[i]) :
     i \in {j \in ScNewRows : sc.out.mult[StrippedKeyOf(sc.file.rows[j])] = 0}}

\* C7: with M rows classified new and N fewer rows returned by the annotation
\* steps, the merge adds exactly M - N rows, none of them with the key of a
\* dropped row.
C7_RowLossContainment ==
  sc.pc \in {"one", "two", "three"} =>
    LET M == Cardinality(ScNewRows)
        N == M - sc.nOut
    IN /\ Len(sc.ab.rows) = Len(sc.prev.rows) + M - N
       /\ sc.nNew = M
       /\ \A i \in (Len(sc.prev.rows) + 1)..Len(sc.ab.rows) :
            KeyOf(sc.ab.rows[i]) \notin ScDroppedKeys

\* C7 witness: a merge into a table that held rows classified two rows as new
\* and its annotation step dropped one of them
C7_Witness ==
  /\ sc.pc = "two"
  /\ Len(sc.prev.rows) > 0
  /\ sc.nNew = 2
  /\ sc.nOut = 1
  /\ Len(sc.ab.rows) = Len(sc.prev.rows) + 1

\* C11: after a validation that returned, the validator's indicator is 1 on
\* the table rows whose key is the key of some row of its reference batch and
\* 0 on every other row (stated as the claim states it; the code breaks it).
C11_ValidationResult ==
  (sc.pc \in {"v1", "v2"} /\ sc.err = "none") =>
    \A i \in DOMAIN sc.vy.rows :
      sc.vy.rows[i][Name(sc.v)] =
        IF KeyOf(sc.vy.rows[i]) \in Keys(sc.ref) THEN "1" ELSE "0"

\* C12: a validation by V keeps the rows, their order and every cell outside
\* V's own column, the indicator column of the merged source included, and the
\* two orders of the validators end in the same table (stated as the claim
\* states it; the code breaks it).
C12_ValidationFrame ==
  (sc.pc \in {"v1", "v2"}) =>
    /\ Len(sc.vy.rows) = Len(sc.prev.rows)
    /\ Range(sc.prev.cols) \subseteq Range(sc.vy.cols)
    /\ Range(sc.vy.cols) \ {Name(sc.v)} \subseteq Range(sc.prev.cols)
    /\ \A i \in DOMAIN sc.prev.rows : \A c \in Range(sc.prev.cols) :
         (c # Name(sc.v) \/ c = Name(sc.d)) => sc.vy.rows[i][c] = sc.prev.rows[i][c]
    /\ sc.pc = "v2" => sc.vy = sc.yv

\* C16: a merge_db call in which the load or the pre-processing of the source
\* raises passes the error on and leaves the table as it was.
C16_LoadFailureIsolation ==
  [][(last'.op = "merge_db" /\ err' \in {"SourceLoadError", "SourceFormatError"}) =>
       /\ table' = table
       /\ UNCHANGED <<variant_dbs, validation_dbs>>]_vars

\* C16 witness: the load of a source raised in a call on a table that holds
\* rows and lacks the indicator column of that source
C16_Witness ==
  /\ last.op = "merge_db"
  /\ err \in {"SourceLoadError", "SourceFormatError"}
  /\ Len(table.rows) > 0
  /\ Name(last.db) \notin Range(table.cols)

\* the columns of t that are not key columns and that u still has, in the
\* order t has them
KeptCols(t, u) ==
  Filter(t.cols, Range(KeyCols) \cup (Range(t.cols) \ Range(u.cols)))

\* C13: after a merge_db call that returned, the key columns lead in key
\* order, the other columns that were in the table follow in the order they
\* had, and the columns this merge introduced come after them (stated as the
\* claim states it, for a table that held rows; the code breaks it).
C13_ColumnOrder ==
  [][(last'.op = "merge_db" /\ err' = "none" /\ Len(table.rows) > 0) =>
       LET others == Filter(table'.cols, Range(KeyCols))
           old == KeptCols(table, table')
       IN /\ table'.cols = KeyCols \o others
          /\ SubSeq(others, 1, Len(old)) = old]_vars

\* C14: a merge_db call, however it ends, keeps every row of the table at its
\* position with every cell outside the indicator column of the merged source
\* unchanged; the rows it adds follow them.
C14_AppendOnly ==
  [][last'.op = "merge_db" =>
       /\ Len(table'.rows) >= Len(table.rows)
       /\ \A i \in DOMAIN table.rows : \A c \in Range(table.cols) \ {Name(last'.db)} :
            /\ c \in Range(table'.cols)
            /\ table'.rows[i][c] = table.rows[i][c]]_vars

\* C14 witness: a merge added a row to a table whose first row, with an
\* annotation value and the key of a batch row, was marked by this merge
C14_Witness ==
  /\ last.op = "merge_db"
  /\ err = "none"
  /\ Len(table.rows) = 2
  /\ "Gene" \in Range(table.cols)
  /\ {"X", "Y"} \subseteq Range(table.cols)
  /\ table.rows[1]["X"] = "1" /\ table.rows[1]["Y"] = "1"
  /\ table.rows[1]["Gene"] = Transcript(1)
  /\ NaN \in {table.rows[2]["X"], table.rows[2]["Y"]}

\* C20: a merge_db call in which an annotation step raises adds and removes no
\* row, no column but the indicator column of the merged source, changes no
\* cell outside that column, and keeps the batch of the source loaded (stated
\* as the claim states it, for a table that had columns; the code breaks it).
C20_AnnotationFailure ==
  [][(last'.op = "merge_db" /\ err' = "AnnotationError" /\ Len(table.cols) > 0) =>
       /\ Len(table'.rows) = Len(table.rows)
       /\ Range(table'.cols) \ {Name(last'.db)} = Range(table.cols) \ {Name(last'.db)}
       /\ \A i \in DOMAIN table.rows : \A c \in Range(table.cols) \ {Name(last'.db)} :
            table'.rows[i][c] = table.rows[i][c]
       /\ last'.db \in DOMAIN dfs']_vars

\* C17: the loop calls its first step on the new rows only, each other step on
\* what the step before it returned, or on the frame that step was given (as
\* the step left it) when it returned None, and a merge that returned has
\* called every step of the source's registry, in the registry's order (stated
\* as the claim states it; the code breaks it).
C17_AnnotationSequencing ==
  /\ (sc.pc \in {"loop", "raised"} /\ sc.calls # <<>>) =>
       Keys(sc.calls[1].arg) \cap Keys(sc.t) = {}
  /\ sc.pc \in {"loop", "raised", "done"} =>
       \A i \in DOMAIN sc.calls : i > 1 => sc.calls[i].arg = sc.calls[i - 1].out
  /\ sc.pc = "done" =>
       [i \in DOMAIN sc.calls |-> sc.calls[i].step] = sc.registry

\* the rows of df whose lookup fails
FailingRows == {i \in DOMAIN run.df :
                  ~LookupOne(run.df[i].chr, run.df[i].pos, run.df[i].ref).ok}

\* C15: when the lookup of some row fails, add_genome_ref_column never returns
\* normally and df never has the genome-reference column, whole or in part.
C15_AllOrNothing ==
  /\ FailingRows # {} => (run.pc # "done" /\ ~run.col.present)
  /\ run.pc = "raised" => (run.err = "RuntimeError" /\ ~run.col.present)

\* C15 witness: the call raised with two threads, after the result of an
\* earlier row was stored in results and a row behind the failing one was
\* looked up
C15_Witness ==
  /\ run.pc = "raised"
  /\ run.workers = 2
  /\ run.wait > 1
  /\ run.results[1] # None
  /\ \E i \in DOMAIN run.df : i > run.wait /\ run.fut[i].st = "done"

\* C18: the name _lookup_one looks up is the chromosome name itself when it
\* starts with "chr", and "chr" followed by the whole name otherwise (stated as
\* the claim states it; the code breaks it).
C18_ChromNormalisation ==
  run.pc = "returned" =>
    run.name = IF Len(run.chrom) >= Len(Chr) /\ SubSeq(run.chrom, 1, Len(Chr)) = Chr
               THEN run.chrom
               ELSE Chr \o run.chrom

\* C19: when add_genome_ref_column returns, the cell of every row is the
\* result of the lookup of that row, one cell per row; and every lookup uses a
\* handle that the thread running it has opened.
C19_LookupAlignment ==
  /\ run.pc = "done" =>
       /\ run.col.present
       /\ DOMAIN run.col.cells = DOMAIN run.df
       /\ \A i \in DOMAIN run.df :
            run.col.cells[i] =
              LookupOne(run.df[i].chr, run.df[i].pos, run.df[i].ref).seq
  /\ \A i \in DOMAIN run.df : run.by[i] # 0 => run.handle[i] = run.by[i]

\* C19 witness: three rows with different results were looked up in two
\* chunks, the rows of the first chunk by different threads
C19_Witness ==
  /\ run.pc = "done"
  /\ Len(run.df) = 3
  /\ run.chunk_size = 2
  /\ run.workers = 2
  /\ run.by[1] # run.by[2]
  /\ run.col.cells[1] # run.col.cells[2]
  /\ run.col.cells[3] = run.col.cells[1]

====
